---- MODULE Spec2Model ----
(***************************************************************************)
(* Conway's Game of Life on a round (toroidal) square board, as            *)
(* implemented in src/main.cpp: board_factory, the random seeding          *)
(* generates_board_initial_state, print_board, neighbour_position,         *)
(* update_board, is_everybody_dead and the driver loop of main.            *)
(*                                                                         *)
(* A Board is a function 0..N-1 -> (0..N-1 -> Cell), the std::vector of    *)
(* Rows.  size_t values whose width matters are kept as four 16-bit limbs, *)
(* most significant first, so that the unsigned arithmetic of              *)
(* neighbour_position and the conversions of main are computed as the      *)
(* machine computes them.                                                  *)
(***************************************************************************)
EXTENDS Integers, Sequences, FiniteSets, TLC

VARIABLES
  argv,                         \* the options given on the command line
  pc,                           \* position of main
  board_size,                   \* main: size_t board_size
  number_initial_living_cells,  \* main: uint number_initial_living_cells
  generations,                  \* main: size_t generations
  max_generations,              \* main: size_t max_generations
  board,                        \* main: Board board
  seed_i,                       \* generates_board_initial_state: size_t i
  temp_board,                   \* update_board: Board temp_board
  i,                            \* update_board: size_t i
  j,                            \* update_board: size_t j
  screen,                       \* the terminal: the frame last printed
  frames,                       \* how many frames print_board has written
  report,                       \* the line main prints last
  error,                        \* why the process ended abnormally, if it did
  pending                       \* update_board with its loop order left open:
                                \* the cells not computed yet

vars == <<argv, pc, board_size, number_initial_living_cells, generations,
          max_generations, board, seed_i, temp_board, i, j, screen, frames,
          report, error, pending>>

---------------------------------------------------------------------------
(* Bounds of the model *)

MaxSize == 3
MaxCells == 3
MaxGen == 2
PatternMaxSize == 6
MaxShift == 2
MaxWindow == 2
MaxRotation == 1

\* iterations explored of a loop whose bound does not fit the model
SeedCap == MaxCells + 1
GenCap == MaxGen + 1

---------------------------------------------------------------------------
(* Program constants *)

dead == "dead"
alive == "alive"
Cell == {dead, alive}

ALIVE_SYMBOL == " o "
DEAD_SYMBOL == " _ "
MIN_NEIGHBOURS == 2
MAX_NEIGHBOURS == 3

DEFAULT_BOARD_SIZE == 50
DEFAULT_LIVING_CELLS == 200
DEFAULT_MAX_GENERATIONS == 100

---------------------------------------------------------------------------
(* Machine integers.  int is 32 bits two's complement, uint 32 bits,       *)
(* size_t 64 bits.                                                         *)

Limb == 2^16

\* an int as the size_t it converts to (sign extension, modulo 2^64)
IntToSizeT(x) ==
  LET top == IF x < 0 THEN Limb - 1 ELSE 0
  IN  <<top, top, (x \div Limb) % Limb, x % Limb>>

\* an int as the uint it converts to (modulo 2^32), widened to size_t
IntToUInt(x) == <<0, 0, (x \div Limb) % Limb, x % Limb>>

\* a size_t as the int it converts to: its low 32 bits, two's complement
SizeTToInt(a) ==
  IF a[3] >= Limb \div 2 THEN (a[3] - Limb) * Limb + a[4]
                         ELSE a[3] * Limb + a[4]

\* a + b modulo 2^64
AddSizeT(a, b) ==
  LET s4 == a[4] + b[4]
      s3 == a[3] + b[3] + s4 \div Limb
      s2 == a[2] + b[2] + s3 \div Limb
      s1 == a[1] + b[1] + s2 \div Limb
  IN  <<s1 % Limb, s2 % Limb, s3 % Limb, s4 % Limb>>

\* a < b, unsigned
LessSizeT(a, b) ==
  \E k \in 1..4 : a[k] < b[k] /\ \A m \in 1..(k - 1) : a[m] = b[m]

\* a container size or a loop counter as a size_t
ToSizeT(n) == <<0, 0, n \div Limb, n % Limb>>

\* the container size or index a small size_t stands for
SizeTValue(a) == a[3] * Limb + a[4]

\* std::vector<Cell>::max_size() is PTRDIFF_MAX / sizeof(Cell) = 2^61 - 1
ExceedsMaxSize(a) == a[1] >= Limb \div 8

---------------------------------------------------------------------------
(* Boards *)

Size(b) == Cardinality(DOMAIN b)

\* board_factory with rows one cell short
board_factory_short_rows(size, initial_value) ==
  [r \in 0..(size - 1) |-> [c \in 0..(size - 2) |-> initial_value]]

board_factory(size, initial_value) ==
  [r \in 0..(size - 1) |-> [c \in 0..(size - 1) |-> initial_value]]

RECURSIVE RowHasAlive(_, _)
RowHasAlive(row, c) ==
  IF c >= Size(row) THEN FALSE
  ELSE IF row[c] = alive THEN TRUE
  ELSE RowHasAlive(row, c + 1)

RECURSIVE ScanRows(_, _)
ScanRows(b, r) ==
  IF r >= Size(b) THEN TRUE
  ELSE IF RowHasAlive(b[r], 0) THEN FALSE
  ELSE ScanRows(b, r + 1)

\* is_everybody_dead returning after the first row
is_first_row_dead(b) == IF Size(b) = 0 THEN TRUE ELSE ~RowHasAlive(b[0], 0)

is_everybody_dead(b) == ScanRows(b, 0)

Render(b) ==
  [r \in 1..Size(b) |->
    [c \in 1..Size(b) |->
      IF b[r - 1][c - 1] = alive THEN ALIVE_SYMBOL ELSE DEAD_SYMBOL]]

---------------------------------------------------------------------------
(* neighbour_position: update_board passes the offset as coord and the     *)
(* cell's indexes as positions.                                            *)

\* NewCoord stopping at the edge instead of wrapping
NewCoordClamped(c, p, board_size_) ==
  LET sum == SizeTToInt(AddSizeT(p, IntToSizeT(c)))
  IN  IF sum < 0 \/ ~LessSizeT(IntToSizeT(sum), board_size_)
      THEN IF sum < 0
           THEN 0
           ELSE SizeTToInt(AddSizeT(board_size_, IntToSizeT(-1)))
      ELSE sum

NewCoord(c, p, board_size_) ==
  LET sum == SizeTToInt(AddSizeT(p, IntToSizeT(c)))
  IN  IF sum < 0 \/ ~LessSizeT(IntToSizeT(sum), board_size_)
      THEN IF sum < 0
           THEN SizeTToInt(AddSizeT(board_size_, IntToSizeT(-1)))
           ELSE 0
      ELSE sum

\* NewCoord is a function of its arguments alone: it is computed once for
\* every side, index and offset the boards of the model have
MaxSide == IF MaxSize > PatternMaxSize THEN MaxSize ELSE PatternMaxSize

NewCoordTable ==
  [N \in 1..MaxSide |-> [p \in 0..(N - 1) |-> [c \in -1..1 |->
     NewCoord(c, ToSizeT(p), ToSizeT(N))]]]

NewCoordOf(c, p, board_size_) ==
  NewCoordTable[SizeTValue(board_size_)][SizeTValue(p)][c]

neighbour_position(coord, positions, board_size_) ==
  <<NewCoordOf(coord[1], positions[1], board_size_),
    NewCoordOf(coord[2], positions[2], board_size_)>>

neighbourhood ==
  <<<<-1, 0>>, <<0, -1>>, <<1, 0>>, <<0, 1>>,
    <<1, 1>>, <<-1, -1>>, <<-1, 1>>, <<1, -1>>>>

RECURSIVE CountFrom(_, _, _, _)
CountFrom(b, positions, board_size_, k) ==
  IF k > Len(neighbourhood) THEN 0
  ELSE LET pos == neighbour_position(neighbourhood[k], positions, board_size_)
       IN  (IF b[pos[1]][pos[2]] = alive THEN 1 ELSE 0)
           + CountFrom(b, positions, board_size_, k + 1)

\* count_neighbors with the diagonal offsets forgotten
RECURSIVE CountOrthogonalFrom(_, _, _, _)
CountOrthogonalFrom(b, positions, board_size_, k) ==
  IF k > 4 THEN 0
  ELSE LET pos == neighbour_position(neighbourhood[k], positions, board_size_)
       IN  (IF b[pos[1]][pos[2]] = alive THEN 1 ELSE 0)
           + CountOrthogonalFrom(b, positions, board_size_, k + 1)

count_neighbors_orthogonal(b, r, c) ==
  CountOrthogonalFrom(b, <<ToSizeT(r), ToSizeT(c)>>, ToSizeT(Size(b)), 1)

\* count_neighbors counting every neighbouring cell once, however many
\* offsets lead to it
count_neighbors_distinct(b, r, c) ==
  Cardinality({pos \in {neighbour_position(neighbourhood[k],
                           <<ToSizeT(r), ToSizeT(c)>>, ToSizeT(Size(b))) :
                         k \in 1..Len(neighbourhood)} :
                 b[pos[1]][pos[2]] = alive})

\* the lambda of update_board run over neighbourhood for cell (r, c)
count_neighbors(b, r, c) ==
  CountFrom(b, <<ToSizeT(r), ToSizeT(c)>>, ToSizeT(Size(b)), 1)

\* NextCell with the survival test written > MIN_NEIGHBOURS
NextCellStrictSurvival(cell, n, temp_cell) ==
  IF cell = alive /\ n < MIN_NEIGHBOURS THEN dead
  ELSE IF cell = alive /\ n > MIN_NEIGHBOURS /\ n <= MAX_NEIGHBOURS THEN alive
  ELSE IF cell = alive /\ n > MAX_NEIGHBOURS THEN dead
  ELSE IF cell = dead /\ n = MAX_NEIGHBOURS THEN alive
  ELSE temp_cell

\* NextCell with reproduction tested against MIN_NEIGHBOURS
NextCellBirthOnTwo(cell, n, temp_cell) ==
  IF cell = alive /\ n < MIN_NEIGHBOURS THEN dead
  ELSE IF cell = alive /\ n >= MIN_NEIGHBOURS /\ n <= MAX_NEIGHBOURS THEN alive
  ELSE IF cell = alive /\ n > MAX_NEIGHBOURS THEN dead
  ELSE IF cell = dead /\ n = MIN_NEIGHBOURS THEN alive
  ELSE temp_cell

\* the if / else-if chain of update_board; with no branch taken the cell of
\* temp_board keeps the value board_factory gave it
NextCell(cell, n, temp_cell) ==
  IF cell = alive /\ n < MIN_NEIGHBOURS THEN dead
  ELSE IF cell = alive /\ n >= MIN_NEIGHBOURS /\ n <= MAX_NEIGHBOURS THEN alive
  ELSE IF cell = alive /\ n > MAX_NEIGHBOURS THEN dead
  ELSE IF cell = dead /\ n = MAX_NEIGHBOURS THEN alive
  ELSE temp_cell

\* update_board as a function of the board it is given: the two loops run
\* from cell (r, c) on, row by row, over a temp_board that starts all dead;
\* the value is the board the caller's board is replaced with
RECURSIVE UpdateFrom(_, _, _, _)
UpdateFrom(b, temp, r, c) ==
  IF ~(r < Size(b)) THEN temp
  ELSE LET next ==
             [temp EXCEPT
                ![r][c] = NextCell(b[r][c], count_neighbors(b, r, c), @)]
       IN  IF c + 1 < Size(b)
           THEN UpdateFrom(b, next, r, c + 1)
           ELSE UpdateFrom(b, next, r + 1, 0)

update_board(b) == UpdateFrom(b, board_factory(Size(b), dead), 0, 0)

---------------------------------------------------------------------------
(* main *)

SizeOpts == -1..MaxSize
CellOpts == -1..MaxCells
GenOpts == -1..MaxGen

\* argv maps each option given to its value
Init ==
  /\ argv \in [s : SizeOpts, n : CellOpts, m : GenOpts]
  /\ pc = "getopt"
  /\ board_size = ToSizeT(DEFAULT_BOARD_SIZE)
  /\ number_initial_living_cells = IntToUInt(DEFAULT_LIVING_CELLS)
  /\ generations = 0
  /\ max_generations = ToSizeT(DEFAULT_MAX_GENERATIONS)
  /\ board = <<>>
  /\ seed_i = 0
  /\ temp_board = <<>>
  /\ i = 0
  /\ j = 0
  /\ screen = <<>>
  /\ frames = 0
  /\ report = ""
  /\ error = ""
  /\ pending = {}

\* Getopt with an option that is not given read as 0
GetoptAbsentAsZero ==
  /\ pc = "getopt"
  /\ board_size' = IF "s" \in DOMAIN argv THEN IntToSizeT(argv.s)
                                          ELSE ToSizeT(0)
  /\ number_initial_living_cells' =
       IF "n" \in DOMAIN argv THEN IntToUInt(argv.n) ELSE ToSizeT(0)
  /\ max_generations' = IF "m" \in DOMAIN argv THEN IntToSizeT(argv.m)
                                               ELSE ToSizeT(0)
  /\ pc' = "factory"
  /\ UNCHANGED <<argv, frames, pending, generations, board, seed_i, temp_board,
                 i, j, screen, report, error>>

\* the getopt loop: for each option given std::stoi yields an int, stored in
\* a size_t (-s, -m) or a uint (-n); an option not given leaves the local as
\* it was initialised
Getopt ==
  /\ pc = "getopt"
  /\ board_size' = IF "s" \in DOMAIN argv THEN IntToSizeT(argv.s)
                                          ELSE board_size
  /\ number_initial_living_cells' =
       IF "n" \in DOMAIN argv THEN IntToUInt(argv.n)
                              ELSE number_initial_living_cells
  /\ max_generations' = IF "m" \in DOMAIN argv THEN IntToSizeT(argv.m)
                                               ELSE max_generations
  /\ pc' = "factory"
  /\ UNCHANGED <<argv, frames, pending, generations, board, seed_i, temp_board,
                 i, j, screen, report, error>>

\* Board board = board_factory(board_size): the vector constructor throws
\* std::length_error above max_size(), and nothing catches it
CreateBoard ==
  /\ pc = "factory"
  /\ IF ExceedsMaxSize(board_size)
     THEN /\ pc' = "aborted"
          /\ error' = "length_error"
          /\ UNCHANGED board
     ELSE /\ pc' = "seed"
          /\ board' = board_factory(SizeTValue(board_size), dead)
          /\ UNCHANGED error
  /\ seed_i' = 0
  /\ UNCHANGED <<argv, frames, pending, board_size,
                 number_initial_living_cells, generations, max_generations,
                 temp_board, i, j, screen, report>>

\* SeedCell flipping the chosen cell instead of setting it alive
SeedCellToggle ==
  /\ pc = "seed"
  /\ seed_i < SeedCap
  /\ LessSizeT(ToSizeT(seed_i), number_initial_living_cells)
  /\ Size(board) >= 1
  /\ \E r \in 0..(Size(board) - 1), c \in 0..(Size(board) - 1) :
       board' = [board EXCEPT ![r][c] = IF @ = alive THEN dead ELSE alive]
  /\ seed_i' = seed_i + 1
  /\ UNCHANGED <<argv, frames, pending, pc, board_size,
                 number_initial_living_cells, generations, max_generations,
                 temp_board, i, j, screen, report, error>>

\* one iteration of the seeding loop on a board with cells: both indexes are
\* drawn from 0 .. board.size() - 1
SeedCell ==
  /\ pc = "seed"
  /\ seed_i < SeedCap
  /\ LessSizeT(ToSizeT(seed_i), number_initial_living_cells)
  /\ Size(board) >= 1
  /\ \E r \in 0..(Size(board) - 1), c \in 0..(Size(board) - 1) :
       board' = [board EXCEPT ![r][c] = alive]
  /\ seed_i' = seed_i + 1
  /\ UNCHANGED <<argv, frames, pending, pc, board_size,
                 number_initial_living_cells, generations, max_generations,
                 temp_board, i, j, screen, report, error>>

\* one iteration on the empty board: board.size() - 1 wraps to 2^64 - 1 and
\* board[..][..] indexes an empty vector, which is undefined behaviour: the
\* process is killed, or the stray write leaves the board as it is
SeedOutOfBounds ==
  /\ pc = "seed"
  /\ seed_i < SeedCap
  /\ LessSizeT(ToSizeT(seed_i), number_initial_living_cells)
  /\ Size(board) = 0
  /\ \E outcome \in {"crash", "stray"} :
       IF outcome = "crash"
       THEN pc' = "aborted" /\ error' = "crash" /\ UNCHANGED seed_i
       ELSE seed_i' = seed_i + 1 /\ UNCHANGED <<pc, error>>
  /\ UNCHANGED <<argv, frames, pending, board_size,
                 number_initial_living_cells, generations, max_generations,
                 board, temp_board, i, j, screen, report>>

SeedDone ==
  /\ pc = "seed"
  /\ ~LessSizeT(ToSizeT(seed_i), number_initial_living_cells)
  /\ pc' = "loop"
  /\ UNCHANGED <<argv, frames, pending, board_size,
                 number_initial_living_cells, generations, max_generations,
                 board, seed_i, temp_board, i, j, screen, report, error>>

\* while (!is_everybody_dead(board) && generations < max_generations)
\* LoopCondition testing the counter only
LoopConditionCounterOnly ==
  LessSizeT(ToSizeT(generations), max_generations)

\* the condition of the while loop
LoopCondition ==
  /\ ~is_everybody_dead(board)
  /\ LessSizeT(ToSizeT(generations), max_generations)

LoopTest ==
  /\ pc = "loop"
  /\ IF LoopCondition
     THEN generations < GenCap /\ pc' = "print"
     ELSE pc' = "final_print"
  /\ UNCHANGED <<argv, frames, pending, board_size,
                 number_initial_living_cells, generations, max_generations,
                 board, seed_i, temp_board, i, j, screen, report, error>>

\* print_board(board) inside the loop: the screen is cleared and the frame
\* written
PrintBoard ==
  /\ pc = "print"
  /\ screen' = Render(board)
  /\ frames' = frames + 1
  /\ pc' = "call_update"
  /\ UNCHANGED <<argv, pending, board_size, number_initial_living_cells,
                 generations, max_generations, board, seed_i, temp_board, i, j,
                 report, error>>

\* update_board up to its first cell: temp_board is a fresh all-dead board
UpdateBegin ==
  /\ pc = "call_update"
  /\ temp_board' = board_factory(Size(board), dead)
  /\ i' = 0
  /\ j' = 0
  /\ pc' = "update"
  /\ UNCHANGED <<argv, frames, pending, board_size,
                 number_initial_living_cells, generations, max_generations,
                 board, seed_i, screen, report, error>>

\* UpdateCell writing the next state into the board being read
UpdateCellInPlace ==
  /\ pc = "update"
  /\ i < Size(board)
  /\ board' =
       [board EXCEPT
          ![i][j] = NextCell(board[i][j], count_neighbors(board, i, j), @)]
  /\ temp_board' = board'
  /\ IF j + 1 < Size(board)
     THEN j' = j + 1 /\ i' = i
     ELSE j' = 0 /\ i' = i + 1
  /\ UNCHANGED <<argv, frames, pending, pc, board_size,
                 number_initial_living_cells, generations, max_generations,
                 seed_i, screen, report, error>>

\* one pass of the inner loop body: cell (i, j)
UpdateCell ==
  /\ pc = "update"
  /\ i < Size(board)
  /\ temp_board' =
       [temp_board EXCEPT
          ![i][j] = NextCell(board[i][j], count_neighbors(board, i, j), @)]
  /\ IF j + 1 < Size(board)
     THEN j' = j + 1 /\ i' = i
     ELSE j' = 0 /\ i' = i + 1
  /\ UNCHANGED <<argv, frames, pending, pc, board_size,
                 number_initial_living_cells, generations, max_generations,
                 board, seed_i, screen, report, error>>

\* UpdateReturn of an update_board that took its board by value
UpdateReturnByValue ==
  /\ pc = "update"
  /\ ~(i < Size(board))
  /\ temp_board' = <<>>
  /\ pc' = "sleep"
  /\ UNCHANGED <<argv, frames, pending, board_size,
                 number_initial_living_cells, generations, max_generations,
                 board, seed_i, i, j, screen, report, error>>

\* board = std::move(temp_board), and update_board returns
UpdateReturn ==
  /\ pc = "update"
  /\ ~(i < Size(board))
  /\ board' = temp_board
  /\ temp_board' = <<>>
  /\ pc' = "sleep"
  /\ UNCHANGED <<argv, frames, pending, board_size,
                 number_initial_living_cells, generations, max_generations,
                 seed_i, i, j, screen, report, error>>

\* Increment without generations++
IncrementForgotten ==
  /\ pc = "sleep"
  /\ pc' = "loop"
  /\ UNCHANGED <<argv, frames, pending, board_size,
                 number_initial_living_cells, generations, max_generations,
                 board, seed_i, temp_board, i, j, screen, report, error>>

\* the pacing delay and generations++
Increment ==
  /\ pc = "sleep"
  /\ generations' = generations + 1
  /\ pc' = "loop"
  /\ UNCHANGED <<argv, frames, pending, board_size,
                 number_initial_living_cells, max_generations, board, seed_i,
                 temp_board, i, j, screen, report, error>>

\* FinalPrint of a main that does not print after its loop
FinalPrintSkipped ==
  /\ pc = "final_print"
  /\ pc' = "report"
  /\ UNCHANGED <<argv, frames, pending, board_size,
                 number_initial_living_cells, generations, max_generations,
                 board, seed_i, temp_board, i, j, screen, report, error>>

\* print_board(board) after the loop
FinalPrint ==
  /\ pc = "final_print"
  /\ screen' = Render(board)
  /\ frames' = frames + 1
  /\ pc' = "report"
  /\ UNCHANGED <<argv, pending, board_size, number_initial_living_cells,
                 generations, max_generations, board, seed_i, temp_board, i, j,
                 report, error>>

Report ==
  /\ pc = "report"
  /\ report' = IF LessSizeT(ToSizeT(generations), max_generations)
               THEN "GAME OVER - No Cells Alive\n"
               ELSE ToString(generations) \o " generations\n"
  /\ pc' = "done"
  /\ UNCHANGED <<argv, frames, pending, board_size,
                 number_initial_living_cells, generations, max_generations,
                 board, seed_i, temp_board, i, j, screen, error>>

Next ==
  \/ Getopt
  \/ CreateBoard
  \/ SeedCell
  \/ SeedOutOfBounds
  \/ SeedDone
  \/ LoopTest
  \/ PrintBoard
  \/ UpdateBegin
  \/ UpdateCell
  \/ UpdateReturn
  \/ Increment
  \/ FinalPrint
  \/ Report

Spec == Init /\ [][Next]_vars

\* main up to the created board, run with any of its options given or not
OptRange == [s |-> SizeOpts, n |-> CellOpts, m |-> GenOpts]

Options ==
  UNION {{f \in [D -> SizeOpts \cup CellOpts \cup GenOpts] :
            \A o \in D : f[o] \in OptRange[o]} : D \in SUBSET {"s", "n", "m"}}

InitOptions ==
  /\ argv \in Options
  /\ pc = "getopt"
  /\ board_size = ToSizeT(DEFAULT_BOARD_SIZE)
  /\ number_initial_living_cells = IntToUInt(DEFAULT_LIVING_CELLS)
  /\ generations = 0
  /\ max_generations = ToSizeT(DEFAULT_MAX_GENERATIONS)
  /\ board = <<>>
  /\ seed_i = 0
  /\ temp_board = <<>>
  /\ i = 0
  /\ j = 0
  /\ screen = <<>>
  /\ frames = 0
  /\ report = ""
  /\ error = ""
  /\ pending = {}

NextOptions ==
  \/ Getopt
  \/ CreateBoard

SpecOptions == InitOptions /\ [][NextOptions]_vars

---------------------------------------------------------------------------
(* The driver loop from a given seeded board: main at line 175, with the   *)
(* board any state the seeding can leave.                                  *)

Live(b) ==
  Cardinality({p \in (DOMAIN b) \X (DOMAIN b) : b[p[1]][p[2]] = alive})

AfterSeeding(b, m) ==
  /\ argv = [s |-> Size(b), n |-> Live(b), m |-> m]
  /\ pc = "loop"
  /\ board_size = IntToSizeT(Size(b))
  /\ number_initial_living_cells = IntToUInt(Live(b))
  /\ generations = 0
  /\ max_generations = IntToSizeT(m)
  /\ board = b
  /\ seed_i = Live(b)
  /\ temp_board = <<>>
  /\ i = 0
  /\ j = 0
  /\ screen = <<>>
  /\ frames = 0
  /\ report = ""
  /\ error = ""
  /\ pending = {}

NextLoop ==
  \/ LoopTest
  \/ PrintBoard
  \/ UpdateBegin
  \/ UpdateCell
  \/ UpdateReturn
  \/ Increment
  \/ FinalPrint
  \/ Report

Boards(N) == [0..(N - 1) -> [0..(N - 1) -> Cell]]

\* the board of side N whose live cells are the given ones, taken modulo N
BoardOf(N, cells) ==
  [r \in 0..(N - 1) |-> [c \in 0..(N - 1) |->
    IF \E p \in cells : p[1] % N = r /\ p[2] % N = c THEN alive ELSE dead]]

Block(N, r, c) ==
  BoardOf(N, {<<r, c>>, <<r, c + 1>>, <<r + 1, c>>, <<r + 1, c + 1>>})
HorizontalTriple(N, r, c) == BoardOf(N, {<<r, c - 1>>, <<r, c>>, <<r, c + 1>>})
VerticalTriple(N, r, c) == BoardOf(N, {<<r - 1, c>>, <<r, c>>, <<r + 1, c>>})
SingleCell(N, r, c) == BoardOf(N, {<<r, c>>})

\* the boards of side N with one or two live cells
SparseBoards(N) ==
  {BoardOf(N, {p, q}) : p, q \in (0..(N - 1)) \X (0..(N - 1))}

\* every board of side 1..MaxSize and the sparse boards of side
\* 1..PatternMaxSize, one transition allowed
InitBoards ==
  \/ \E N \in 1..MaxSize : \E b \in Boards(N) : AfterSeeding(b, 1)
  \/ \E N \in 1..PatternMaxSize : \E b \in SparseBoards(N) :
       AfterSeeding(b, 1)

SpecBoards == InitBoards /\ [][NextLoop]_vars

InitBlock ==
  \E N \in 4..PatternMaxSize : \E r \in 0..(N - 1), c \in 0..(N - 1) :
    \E m \in 1..MaxGen : AfterSeeding(Block(N, r, c), m)

SpecBlock == InitBlock /\ [][NextLoop]_vars

InitBlinker ==
  \E N \in 5..PatternMaxSize : \E r \in 0..(N - 1), c \in 0..(N - 1) :
    \E m \in 1..MaxGen : AfterSeeding(HorizontalTriple(N, r, c), m)

SpecBlinker == InitBlinker /\ [][NextLoop]_vars

InitSingle ==
  \E N \in 1..PatternMaxSize : \E r \in 0..(N - 1), c \in 0..(N - 1) :
    \E m \in 1..MaxGen : AfterSeeding(SingleCell(N, r, c), m)

SpecSingle == InitSingle /\ [][NextLoop]_vars

---------------------------------------------------------------------------
(* What the claims speak of *)

Offsets == ({-1, 0, 1} \X {-1, 0, 1}) \ {<<0, 0>>}

\* the live neighbours of (r, c) on the torus, one per offset
LiveNeighbours(b, r, c) ==
  Cardinality({d \in Offsets :
    b[(r + d[1]) % Size(b)][(c + d[2]) % Size(b)] = alive})

\* the step in which update_board hands its result back
Returning == pc = "update" /\ pc' = "sleep"

Cells(b) == (DOMAIN b) \X (DOMAIN b)

Min(a, b) == IF a < b THEN a ELSE b

IsBoard(b, N) ==
  /\ DOMAIN b = 0..(N - 1)
  /\ \A r \in DOMAIN b :
       /\ DOMAIN b[r] = 0..(N - 1)
       /\ \A c \in DOMAIN b[r] : b[r][c] \in Cell

\* what the frame on the screen says of cell p
Shown(p) == screen[p[1] + 1][p[2] + 1]

---------------------------------------------------------------------------
\* C1: when update_board returns, every cell is alive iff on the board it was
\* given (the cell was alive with 2 or 3 live neighbours) or (it was dead
\* with exactly 3), which is the same as: 3 live neighbours, or alive with 2.
C1_RuleTable ==
  [][Returning =>
       \A p \in Cells(board) :
         LET was == board[p[1]][p[2]]
             n   == LiveNeighbours(board, p[1], p[2])
             now == board'[p[1]][p[2]]
         IN  /\ (now = alive) <=> \/ (was = alive /\ n \in {2, 3})
                                  \/ (was = dead /\ n = 3)
             /\ (now = alive) <=> (n = 3 \/ (was = alive /\ n = 2))]_vars

\* a 3 x 3 transition with a birth and a survival: the frame printed before
\* the transition shows the old board
C1_Witness ==
  /\ pc = "sleep"
  /\ Size(board) = 3
  /\ \E p \in Cells(board) : Shown(p) = DEAD_SYMBOL /\ board[p[1]][p[2]] = alive
  /\ \E p \in Cells(board) : Shown(p) = ALIVE_SYMBOL /\ board[p[1]][p[2]] = alive

\* C2: while update_board computes, the board it reads is the one printed
\* before the transition and no step changes it; each step writes one cell of
\* temp_board; the board is replaced by temp_board in the one step taken
\* after the last cell, and nowhere else once it is seeded.
C2_SnapshotUntouched ==
  /\ [](pc \in {"call_update", "update"} => screen = Render(board))
  /\ [][pc = "update" =>
          IF i < Size(board)
          THEN /\ board' = board
               /\ pc' = "update"
               /\ \A p \in Cells(board) :
                    p # <<i, j>> =>
                      temp_board'[p[1]][p[2]] = temp_board[p[1]][p[2]]
          ELSE /\ board' = temp_board
               /\ pc' = "sleep"]_vars
  /\ [][board' # board => pc \in {"factory", "seed", "update"}]_vars

\* update_board half way through a 3 x 3 board with a cell already written
\* alive in temp_board
C2_Witness ==
  /\ pc = "update"
  /\ Size(board) = 3
  /\ i = 1
  /\ j = 1
  /\ \E p \in Cells(temp_board) :
       temp_board[p[1]][p[2]] = alive /\ board[p[1]][p[2]] = dead

\* C3: for the cell (i, j) being computed on a board of side N and every
\* offset in {-1, 0, 1} on each axis, neighbour_position gives on each axis
\* (p + delta) mod N: N - 1 below 0, 0 at N, p + delta otherwise, always an
\* index of the board.
C3_WrapAround ==
  (pc = "update" /\ i < Size(board)) =>
    LET N == Size(board)
        Wrapped(q, delta) ==
          IF q + delta < 0 THEN N - 1
          ELSE IF q + delta >= N THEN 0
          ELSE q + delta
    IN  \A d \in {-1, 0, 1} \X {-1, 0, 1} :
          LET pos == neighbour_position(d, <<ToSizeT(i), ToSizeT(j)>>,
                                        ToSizeT(N))
          IN  /\ pos = <<Wrapped(i, d[1]), Wrapped(j, d[2])>>
              /\ pos = <<(i + d[1]) % N, (j + d[2]) % N>>
              /\ pos \in (0..(N - 1)) \X (0..(N - 1))

\* the corner cell (0, N - 1) of a board of side 5: row 0 wraps up to row 4,
\* column 4 wraps right to column 0
C3_Witness ==
  /\ pc = "update"
  /\ Size(board) = 5
  /\ i = 0
  /\ j = 4
  /\ neighbour_position(<<-1, 1>>, <<ToSizeT(i), ToSizeT(j)>>, ToSizeT(5))
       = <<4, 0>>

\* C4: once creation is past, a size <= 0 has ended the run with the
\* condition signalled and no board, and a size >= 1 has given a board of that
\* side.  (The std::length_error of an oversized vector is counted as the
\* signalled condition.)
C4_InvalidSizeRejected ==
  pc \notin {"getopt", "factory"} =>
    IF argv.s <= 0
    THEN /\ pc = "aborted"
         /\ error \in {"InvalidArgument", "length_error"}
         /\ board = <<>>
    ELSE /\ error = ""
         /\ Size(board) = argv.s

\* C5: on a board of side N >= 1, after k seeding iterations the number of
\* live cells L satisfies min(1, k) <= L <= min(k, N * N); seeding ends with
\* k = count; and no seeding step turns a live cell dead.
C5_SeedingBounds ==
  /\ []((argv.s >= 1 /\ (pc = "seed" \/ (pc = "loop" /\ generations = 0))) =>
          /\ Min(1, seed_i) <= Live(board)
          /\ Live(board) <= Min(seed_i, Size(board) * Size(board))
          /\ (seed_i = 0 => board = board_factory(argv.s, dead))
          /\ (pc = "loop" /\ argv.n >= 0 => seed_i = argv.n))
  /\ [][pc = "seed" =>
          \A p \in Cells(board) :
            board[p[1]][p[2]] = alive => board'[p[1]][p[2]] = alive]_vars

\* seeding finished with count 3 and a cell drawn more than once
C5_Witness ==
  /\ pc = "loop"
  /\ generations = 0
  /\ argv.n = 3
  /\ argv.s = 3
  /\ Live(board) = 2

\* C6: is_everybody_dead(board) is true iff every cell is dead, and is true
\* of the board board_factory has just made.
C6_AllDeadIff ==
  /\ is_everybody_dead(board)
       <=> \A p \in Cells(board) : board[p[1]][p[2]] = dead
  /\ (pc = "seed" /\ seed_i = 0) => is_everybody_dead(board)

\* a 3 x 3 board whose only live cell is the last one scanned
C6_Witness ==
  /\ pc = "loop"
  /\ Size(board) = 3
  /\ Live(board) = 1
  /\ board[2][2] = alive
  /\ ~is_everybody_dead(board)

\* C7: with a side N >= 1 given, from creation on the board is N rows of N
\* cells, each dead or alive, and so is temp_board while update_board runs.
C7_SquareBoard ==
  (argv.s >= 1 /\ pc \notin {"getopt", "factory"}) =>
    /\ IsBoard(board, argv.s)
    /\ (pc = "update" => IsBoard(temp_board, argv.s))

\* a 3 x 3 board after seeding three cells and one transition, in which the
\* six dead cells were born
C7_Witness ==
  /\ pc = "loop"
  /\ generations = 1
  /\ argv.s = 3
  /\ Live(board) = 9

\* C8: on a board of side N >= 4 whose live cells are exactly a 2 x 2 block
\* (coordinates modulo N), update_board returns the same board.
C8_BlockStill ==
  [][(/\ Returning
      /\ Size(board) >= 4
      /\ \E r, c \in DOMAIN board : board = Block(Size(board), r, c))
     => board' = board]_vars

\* a transition done on the 4 x 4 board whose block lies across both edges
C8_Witness ==
  /\ pc = "sleep"
  /\ Size(board) = 4
  /\ board = Block(4, 3, 3)
  /\ screen = Render(Block(4, 3, 3))

\* C9: on a board of side N >= 5, update_board turns the horizontal triple
\* centred at (r, c) into the vertical triple centred at (r, c) and the
\* vertical one into the horizontal one; so the frame of generation 1 is the
\* vertical triple of the board of generation 2, the horizontal one again.
C9_Blinker ==
  /\ [][(Returning /\ Size(board) >= 5) =>
          \A r, c \in DOMAIN board :
            LET N == Size(board)
            IN  /\ board = HorizontalTriple(N, r, c)
                     => board' = VerticalTriple(N, r, c)
                /\ board = VerticalTriple(N, r, c)
                     => board' = HorizontalTriple(N, r, c)]_vars
  /\ []((pc = "loop" /\ generations = 1) =>
          \E r, c \in DOMAIN board :
            /\ screen = Render(HorizontalTriple(Size(board), r, c))
            /\ board = VerticalTriple(Size(board), r, c))
  /\ []((pc = "loop" /\ generations = 2) =>
          \E r, c \in DOMAIN board :
            /\ screen = Render(VerticalTriple(Size(board), r, c))
            /\ board = HorizontalTriple(Size(board), r, c))

\* two transitions done on the 5 x 5 board whose triple lies across the edges
C9_Witness ==
  /\ pc = "loop"
  /\ generations = 2
  /\ board = HorizontalTriple(5, 0, 0)
  /\ screen = Render(VerticalTriple(5, 0, 0))

\* C10: on a board whose only live cell is one cell, update_board returns the
\* all-dead board.
C10_SingleCellDies ==
  [][(Returning /\ \E r, c \in DOMAIN board :
                     board = SingleCell(Size(board), r, c))
     => /\ \A p \in Cells(board') : board'[p[1]][p[2]] = dead
        /\ board' = board_factory(Size(board), dead)]_vars

\* the case of side 5 with the cell at (2, 2): the frame shows the cell, the
\* board after the transition has none
C10_Witness ==
  /\ pc = "sleep"
  /\ screen = Render(SingleCell(5, 2, 2))
  /\ board = board_factory(5, dead)

\* the statements a run with cap M >= 0 that stands at pc has still to
\* execute, at most: what is left of this pass of the loop, the passes the
\* counter still allows, the final frame and the report
StepsLeft ==
  LET N == Size(board)
      pass == N * N + 5
      here == CASE pc = "loop" -> pass
                [] pc = "print" -> pass - 1
                [] pc = "call_update" -> pass - 2
                [] pc = "update" -> (N * N - (i * N + j)) + 2
                [] pc = "sleep" -> 1
                [] OTHER -> 0
      after == CASE pc = "final_print" -> 2
                 [] pc = "report" -> 1
                 [] pc = "done" -> 0
                 [] OTHER -> 3
  IN  (argv.m - generations) * pass + here + after

InLoop == pc \in {"loop", "print", "call_update", "update", "sleep",
                  "final_print", "report"}

\* C11: with a cap M >= 0 the counter never exceeds M and changes only by the
\* generations++ that follows a transition, by exactly one; the loop body is
\* entered only with a live cell on the board and the counter below M, and
\* the loop is left only with the board all dead or the counter at M; the
\* loop terminates: until the report is written a next statement can always
\* run, and every statement leaves fewer statements to run, never below none
C11_LoopTerminates ==
  /\ [](argv.m >= 0 => generations <= argv.m)
  /\ [][/\ pc = "sleep" => generations' = generations + 1
        /\ pc # "sleep" => generations' = generations]_vars
  /\ [][argv.m >= 0 /\ pc = "loop" /\ pc' = "print" =>
          ~is_everybody_dead(board) /\ generations < argv.m]_vars
  /\ [][argv.m >= 0 /\ pc = "loop" /\ pc' = "final_print" =>
          is_everybody_dead(board) \/ generations = argv.m]_vars
  /\ [](argv.m >= 0 /\ InLoop => (ENABLED Next) /\ StepsLeft > 0)
  /\ [](argv.m >= 0 /\ pc = "done" => StepsLeft >= 0)
  /\ [][argv.m >= 0 /\ InLoop => StepsLeft' < StepsLeft]_vars

\* a run stopped by its cap with a live cell left
C11_Witness ==
  /\ pc = "done"
  /\ argv.m = MaxGen
  /\ generations = argv.m
  /\ ~is_everybody_dead(board)

\* C12: a run given a negative -n or a negative -m (and a board side of at
\* least 1) ends with InvalidArgument before a cell is seeded and before a
\* transition: it never gets past creating the board
C12_NegativeCountRejected ==
  (argv.s >= 1 /\ (argv.n < 0 \/ argv.m < 0)) =>
    /\ pc \in {"getopt", "factory", "aborted"}
    /\ pc = "aborted" => error = "InvalidArgument"
    /\ seed_i = 0
    /\ generations = 0

\* C13: a run given no option starts with a board of side 50, 20 cells to
\* seed and a cap of 100 generations
C13_Defaults ==
  (DOMAIN argv = {} /\ pc # "getopt") =>
    /\ board_size = ToSizeT(50)
    /\ number_initial_living_cells = ToSizeT(20)
    /\ max_generations = ToSizeT(100)
    /\ pc = "seed" => Size(board) = 50

\* C13, amended: a run given no option starts with a board of side 50, 200
\* cells to seed and a cap of 100 generations
C13_DefaultsOfMain ==
  (DOMAIN argv = {} /\ pc # "getopt") =>
    /\ board_size = ToSizeT(50)
    /\ number_initial_living_cells = ToSizeT(200)
    /\ max_generations = ToSizeT(100)
    /\ pc = "seed" => Size(board) = 50

\* the board of a run given no option, created
C13_Witness ==
  /\ DOMAIN argv = {}
  /\ pc = "seed"
  /\ Size(board) = 50
  /\ generations = 0

\* C14: a run with a board of cells and a cap M >= 0 reports 'GAME OVER - No
\* Cells Alive' exactly when its final board is all dead, and 'M generations'
\* exactly when its final board has a live cell
C14_ReportMatchesBoard ==
  (argv.s >= 1 /\ argv.m >= 0 /\ pc = "done") =>
    /\ report = "GAME OVER - No Cells Alive\n" <=> is_everybody_dead(board)
    /\ report = ToString(argv.m) \o " generations\n" <=>
         ~is_everybody_dead(board)

\* C15: frames and transitions alternate, a frame first: at the loop test as
\* many frames have been written as transitions made, print_board writes
\* one frame, the frame of the current board, update_board replaces only a
\* board whose frame is on the screen, and after the loop the final board
\* is written once and then the report: a finished run has written one
\* frame more than it made transitions
C15_RenderOrder ==
  /\ [](pc \in {"loop", "print", "final_print"} => frames = generations)
  /\ [](pc \in {"call_update", "update", "sleep", "report", "done"} =>
          frames = generations + 1)
  /\ [](pc \in {"call_update", "update", "report", "done"} =>
          screen = Render(board))
  /\ [][frames' # frames =>
          /\ frames' = frames + 1
          /\ pc \in {"print", "final_print"}
          /\ screen' = Render(board)
          /\ board' = board]_vars
  /\ [][InLoop /\ board' # board => Returning /\ screen = Render(board)]_vars
  /\ [][pc' = "done" /\ pc # "done" =>
          pc = "report" /\ report' # "" /\ frames' = generations' + 1]_vars

\* a finished run of two transitions and three frames
C15_Witness ==
  /\ pc = "done"
  /\ generations = 2
  /\ frames = 3
  /\ report = "2 generations\n"

\* 1 for a live cell, 0 for a dead one
Alive(cell) == IF cell = alive THEN 1 ELSE 0

\* C16: on a board of side 1 the count of the cell is 8 when it is alive and
\* 0 when it is dead, and update_board leaves the board all dead; on a board
\* of side 2 the vertical and the horizontal neighbour are each counted
\* twice and the diagonal one four times; on both a cell is counted once for
\* every offset that wraps onto it
C16_SmallBoards ==
  /\ [](Size(board) = 1 =>
          count_neighbors(board, 0, 0) = IF board[0][0] = alive THEN 8 ELSE 0)
  /\ [](Size(board) = 2 =>
          \A p \in Cells(board) :
            count_neighbors(board, p[1], p[2]) =
              2 * Alive(board[1 - p[1]][p[2]])
              + 2 * Alive(board[p[1]][1 - p[2]])
              + 4 * Alive(board[1 - p[1]][1 - p[2]]))
  /\ [](Size(board) \in {1, 2} =>
          \A p \in Cells(board) :
            count_neighbors(board, p[1], p[2]) =
              LiveNeighbours(board, p[1], p[2]))
  /\ [][Returning /\ Size(board) = 1 => is_everybody_dead(board')]_vars

\* the live cell of a board of side 1, dead after update_board
C16_Witness ==
  /\ pc = "sleep"
  /\ Size(board) = 1
  /\ Shown(<<0, 0>>) = ALIVE_SYMBOL
  /\ board[0][0] = dead

\* board b moved on the torus: cell (r, c) of the result is cell
\* (r + a, c + d) of b
Shift(b, a, d) ==
  [r \in DOMAIN b |-> [c \in DOMAIN b |->
    b[(r + a) % Size(b)][(c + d) % Size(b)]]]

\* C18: the board update_board leaves, shifted on the torus, is the board
\* update_board makes of the shifted board, for every shift of up to
\* MaxShift rows and MaxShift columns
C18_TranslationCommutes ==
  [][Returning =>
       \A a, d \in 0..MaxShift :
         update_board(Shift(board, a, d)) = Shift(board', a, d)]_vars

\* a blinker lying across the edges of the board, turned by update_board
C18_Witness ==
  /\ pc = "sleep"
  /\ screen = Render(HorizontalTriple(5, 0, 0))
  /\ board = VerticalTriple(5, 0, 0)
  /\ board # Shift(board, 1, 1)

\* C19: update_board makes of an all-dead board the same all-dead board;
\* from the first loop test on a board that is all dead stays all dead; and
\* the loop body, the transition in it, never runs on an all-dead board
C19_ExtinctionPermanent ==
  /\ [](Size(board) >= 1 /\ is_everybody_dead(board) =>
          update_board(board) = board)
  /\ [][InLoop /\ is_everybody_dead(board) =>
          is_everybody_dead(board')]_vars
  /\ [](pc \in {"print", "call_update", "update"} =>
          ~is_everybody_dead(board))

\* a run whose board died on its first transition, ended below its cap
C19_Witness ==
  /\ pc = "done"
  /\ Size(board) = 3
  /\ is_everybody_dead(board)
  /\ generations = 1
  /\ argv.m = 2
  /\ frames = 2

----------------------------------------------------------------------------
(* update_board with the order of its loops left open: the body of the
   inner loop is run once for every cell, on any of the first MaxWindow
   cells not computed yet, and the for_each over neighbourhood in any of the
   orders of OffsetOrders *)

\* neighbourhood started at any of its first MaxRotation + 1 offsets,
\* forwards or backwards
OffsetOrders ==
  LET n == Len(neighbourhood)
  IN  {[k \in 1..n |-> ((k + t - 1) % n) + 1] : t \in 0..MaxRotation}
      \cup {[k \in 1..n |-> ((t - k) % n) + 1] : t \in 0..MaxRotation}

\* neighbour_position is a function of its arguments alone: it is computed
\* once for every side, cell and offset the boards of the model have
NeighbourTable ==
  [N \in 1..MaxSide |-> [r \in 0..(N - 1) |-> [c \in 0..(N - 1) |->
     [k \in 1..Len(neighbourhood) |->
        neighbour_position(neighbourhood[k], <<ToSizeT(r), ToSizeT(c)>>,
                           ToSizeT(N))]]]]

\* the lambda of update_board run over neighbourhood in the given order
RECURSIVE CountInOrder(_, _, _, _, _)
CountInOrder(b, r, c, order, k) ==
  IF k > Len(neighbourhood) THEN 0
  ELSE LET pos == NeighbourTable[Size(b)][r][c][order[k]]
       IN  (IF b[pos[1]][pos[2]] = alive THEN 1 ELSE 0)
           + CountInOrder(b, r, c, order, k + 1)

\* the cells of P that fewer than MaxWindow cells of P precede, row by row
Window(P, N) ==
  {p \in P :
     Cardinality({q \in P : q[1] * N + q[2] < p[1] * N + p[2]}) < MaxWindow}

UpdateBeginAnyOrder ==
  /\ pc = "call_update"
  /\ temp_board' = board_factory(Size(board), dead)
  /\ pending' = Cells(board)
  /\ i' = 0
  /\ j' = 0
  /\ pc' = "update"
  /\ UNCHANGED <<argv, frames, board_size, number_initial_living_cells,
                 generations, max_generations, board, seed_i, screen, report,
                 error>>

\* UpdateCellAnyOrder writing the next state into the board being read
UpdateCellAnyOrderInPlace ==
  /\ pc = "update"
  /\ \E p \in Window(pending, Size(board)), order \in OffsetOrders :
       /\ board' =
            [board EXCEPT
               ![p[1]][p[2]] =
                 NextCell(board[p[1]][p[2]],
                          CountInOrder(board, p[1], p[2], order, 1),
                          @)]
       /\ pending' = pending \ {p}
  /\ temp_board' = board'
  /\ UNCHANGED <<argv, frames, pc, board_size, number_initial_living_cells,
                 generations, max_generations, seed_i, i, j, screen, report,
                 error>>

\* the body of the inner loop for one cell not computed yet
UpdateCellAnyOrder ==
  /\ pc = "update"
  /\ \E p \in Window(pending, Size(board)), order \in OffsetOrders :
       /\ temp_board' =
            [temp_board EXCEPT
               ![p[1]][p[2]] =
                 NextCell(board[p[1]][p[2]],
                          CountInOrder(board, p[1], p[2], order, 1),
                          @)]
       /\ pending' = pending \ {p}
  /\ UNCHANGED <<argv, frames, pc, board_size, number_initial_living_cells,
                 generations, max_generations, board, seed_i, i, j, screen,
                 report, error>>

\* board = std::move(temp_board) once every cell is computed
UpdateReturnAnyOrder ==
  /\ pc = "update"
  /\ pending = {}
  /\ board' = temp_board
  /\ temp_board' = <<>>
  /\ pc' = "sleep"
  /\ UNCHANGED <<argv, frames, pending, board_size,
                 number_initial_living_cells, generations, max_generations,
                 seed_i, i, j, screen, report, error>>

NextAnyOrder ==
  \/ LoopTest
  \/ PrintBoard
  \/ UpdateBeginAnyOrder
  \/ UpdateCellAnyOrder
  \/ UpdateReturnAnyOrder
  \/ Increment
  \/ FinalPrint
  \/ Report

\* every board of side 1 and 2 and, of side 3..MaxSize, the rows and columns
\* of three live cells and the blocks, one transition allowed
InitAnyOrder ==
  \/ \E N \in 1..2 : \E b \in Boards(N) : AfterSeeding(b, 1)
  \/ \E N \in 3..MaxSize : \E r \in 0..(N - 1), c \in 0..(N - 1) :
       \E b \in {HorizontalTriple(N, r, c), VerticalTriple(N, r, c),
                 Block(N, r, c)} : AfterSeeding(b, 1)

SpecAnyOrder == InitAnyOrder /\ [][NextAnyOrder]_vars

\* C17: whatever the order in which the cells are computed and the offsets
\* of a cell visited, each computation reads the board of before the
\* transition and writes its own cell, once, and the board the transition
\* leaves is the board the loops of update_board, run row by row, make
C17_OrderIndependent ==
  /\ [][pc = "update" /\ pc' = "update" =>
          /\ board' = board
          /\ \E p \in pending :
               /\ pending' = pending \ {p}
               /\ \A q \in Cells(board) \ {p} :
                    temp_board'[q[1]][q[2]] = temp_board[q[1]][q[2]]]_vars
  /\ [][Returning => pending = {} /\ board' = update_board(board)]_vars

\* a cell born out of turn: the first cell of its row is not computed yet
C17_Witness ==
  /\ pc = "update"
  /\ Size(board) = 3
  /\ <<0, 0>> \in pending
  /\ <<0, 1>> \notin pending
  /\ board[0][1] = dead
  /\ temp_board[0][1] = alive

====
